---- MODULE Spec2Model ----
(***************************************************************************)
(* aux_classifier/extraction.py: extraction of word-level activations from *)
(* a transformer model.  One run of extract_representations is modelled as *)
(* a state machine: the model and tokenizer are loaded and the output file *)
(* is opened (Start), the corpus is read one line at a time                *)
(* (ProcessSentence: get_sentence_repr followed by the write to the output *)
(* file), and the file is closed (Finish).                                 *)
(*                                                                         *)
(* Text is a sequence of one-character strings.  A sub-word token is the   *)
(* sequence of the characters of its string; a special token is a          *)
(* one-element sequence holding its name (<<"[CLS]">>).  None and the      *)
(* empty string are both the empty sequence: the code only ever tests them *)
(* for truth (lines 64 and 266).                                           *)
(***************************************************************************)
EXTENDS Integers, Sequences, FiniteSets, TLC

\* Bounds of the model.
MaxSentLen == 3
MaxSentences == 2
NumLayers == 2

MAX_SEQ_LEN == 512

Min(a, b) == IF a < b THEN a ELSE b

StartsWith(s, p) == Len(s) >= Len(p) /\ SubSeq(s, 1, Len(p)) = p

EndsWith(s, p) == Len(s) >= Len(p) /\ SubSeq(s, Len(s) - Len(p) + 1, Len(s)) = p

RECURSIVE Flatten(_, _, _)
\* "".join(parts[lo..hi]), split in halves so that long lists stay shallow.
Flatten(parts, lo, hi) ==
    IF lo > hi THEN <<>>
    ELSE IF lo = hi THEN parts[lo]
    ELSE LET mid == (lo + hi) \div 2
         IN  Flatten(parts, lo, mid) \o Flatten(parts, mid + 1, hi)

(***************************************************************************)
(* get_model_and_tokenizer (lines 56-112)                                  *)
(***************************************************************************)
xlnet == <<"x","l","n","e","t">>
gpt2 == <<"g","p","t","2">>
xlm == <<"x","l","m">>
bert == <<"b","e","r","t">>
distilbert == <<"d","i","s","t","i","l">> \o bert
roberta == <<"r","o","b","e","r","t","a">>

\* The separators of lines 73-103; the two non-ASCII marks are written "_" and "G".
SepOf(cls) ==
    CASE cls = "XLNet" -> <<"_">>
      [] cls = "GPT2" -> <<"G">>
      [] cls = "XLM" -> <<"<","/","w",">">>
      [] cls = "Bert" -> <<"#","#">>
      [] cls = "DistilBert" -> <<"#","#">>
      [] cls = "Roberta" -> <<"G">>

\* from_pretrained(src, output_hidden_states=True).to(device), and the tokenizer
\* of the same family from tok_src.
Loaded(cls, src, tok_src, device, random_weights) ==
    [exited |-> FALSE,
     model |-> [cls |-> cls, src |-> src, device |-> device,
                random_init |-> random_weights],
     tokenizer |-> [cls |-> cls, src |-> tok_src],
     sep |-> SepOf(cls)]

get_model_and_tokenizer(model_name, device, random_weights, model_path) ==
    LET init_model == IF model_path # <<>> THEN model_path ELSE model_name
    IN  IF StartsWith(model_name, xlnet)
          THEN Loaded("XLNet", init_model, init_model, device, random_weights)
        ELSE IF StartsWith(model_name, gpt2)
          THEN Loaded("GPT2", init_model, init_model, device, random_weights)
        ELSE IF StartsWith(model_name, xlm)
          THEN Loaded("XLM", init_model, init_model, device, random_weights)
        ELSE IF StartsWith(model_name, bert)
          THEN Loaded("Bert", init_model, init_model, device, random_weights)
        ELSE IF StartsWith(model_name, distilbert)
          THEN Loaded("DistilBert", init_model, init_model, device, random_weights)
        ELSE IF StartsWith(model_name, roberta)
          THEN Loaded("Roberta", model_name, model_name, device, random_weights)
        ELSE [exited |-> TRUE]

(***************************************************************************)
(* The tokenizer (transformers library), as far as get_sentence_repr uses  *)
(* it: text is split at whitespace and every character of a word is one    *)
(* sub-word token, marked the way the tokenizer's family marks word        *)
(* boundaries; encode() puts the family's special tokens around the        *)
(* sentence and, when asked to truncate, shortens the sentence so that the *)
(* result has at most max_length ids.                                      *)
(***************************************************************************)
PrefixSpecial(cls) ==
    CASE cls \in {"Bert", "DistilBert"} -> << <<"[CLS]">> >>
      [] cls \in {"Roberta", "XLM"} -> << <<"<s>">> >>
      [] OTHER -> <<>>

SuffixSpecial(cls) ==
    CASE cls \in {"Bert", "DistilBert"} -> << <<"[SEP]">> >>
      [] cls \in {"Roberta", "XLM"} -> << <<"</s>">> >>
      [] cls = "XLNet" -> << <<"<sep>">>, <<"<cls>">> >>
      [] OTHER -> <<>>

\* tokenizer.all_special_tokens without tokenizer.unk_token (line 163).
special_tokens(cls) ==
    CASE cls \in {"Bert", "DistilBert"} ->
           { <<"[SEP]">>, <<"[PAD]">>, <<"[CLS]">>, <<"[MASK]">> }
      [] cls \in {"Roberta", "XLM"} ->
           { <<"<s>">>, <<"</s>">>, <<"<pad>">>, <<"<mask>">> }
      [] cls = "XLNet" ->
           { <<"<s>">>, <<"</s>">>, <<"<sep>">>, <<"<pad>">>, <<"<cls>">>,
             <<"<mask>">> }
      [] OTHER -> {}

IsPunct(ch) == ch \in {".", "/"}

\* The string of the token made of the character at position i of text.
PieceString(cls, text, i) ==
    LET ch == text[i]
        wordStart == i = 1 \/ text[i - 1] = " "
        wordEnd == i = Len(text) \/ text[i + 1] = " "
        textStart == \A j \in 1..(i - 1) : text[j] = " "
    IN  CASE cls \in {"Bert", "DistilBert"} ->
               IF wordStart \/ IsPunct(ch) \/ IsPunct(text[i - 1])
                 THEN <<ch>> ELSE <<"#", "#", ch>>
          [] cls \in {"GPT2", "Roberta"} ->
               IF wordStart /\ ~textStart THEN <<"G", ch>> ELSE <<ch>>
          [] cls = "XLNet" ->
               IF wordStart THEN <<"_", ch>> ELSE <<ch>>
          [] cls = "XLM" ->
               IF wordEnd THEN <<ch, "<", "/", "w", ">">> ELSE <<ch>>

\* The sub-word tokens of text, in order, without special tokens.
Tokenize(cls, text) ==
    LET at == SelectSeq([i \in 1..Len(text) |-> i], LAMBDA i : text[i] # " ")
    IN  [k \in 1..Len(at) |-> PieceString(cls, text, at[k])]

\* tokenizer.encode(text) and tokenizer.encode(text, truncation=True, max_length=n).
Encode(cls, text, truncation, max_length) ==
    LET content == Tokenize(cls, text)
        room == max_length - Len(PrefixSpecial(cls)) - Len(SuffixSpecial(cls))
        kept == IF truncation /\ Len(content) > room
                  THEN SubSeq(content, 1, room) ELSE content
    IN  PrefixSpecial(cls) \o kept \o SuffixSpecial(cls)

(***************************************************************************)
(* The transformer model: model(input_ids)[-1] is the embedding output     *)
(* followed by the output of every layer (line 185), each a row of one     *)
(* vector per input position.  The hidden dimension is one number, and the *)
(* activation of layer l (0 is the embedding output) at position p is the  *)
(* number 1000 * l + p, so that a vector tells where it was read from.     *)
(* Positions are numbered from 0 as in the code.                           *)
(***************************************************************************)
ModelHiddenStates(ids) ==
    [k \in 1..(NumLayers + 1) |->
        [p \in 0..(Len(ids) - 1) |-> 1000 * (k - 1) + p]]

\* Lines 188-197: the rows kept of the model's hidden states.
SelectHiddenStates(all_hidden_states, include_embeddings) ==
    IF include_embeddings
      THEN all_hidden_states
      ELSE SubSeq(all_hidden_states, 1, Len(all_hidden_states) - 1)

SeqLenOf(state) == IF Len(state) = 0 THEN 0 ELSE Cardinality(DOMAIN state[1])

(***************************************************************************)
(* aggregate_repr (lines 137-143).  A word vector has one entry per row of *)
(* state; an entry is the fraction <<numerator, denominator>>, and <<0, 0>>*)
(* is NaN (numpy's mean of an empty slice).  Indexing a position outside   *)
(* the tensor raises IndexError; a slice is cut to the tensor.             *)
(***************************************************************************)
NaN == <<0, 0>>

RECURSIVE SumRange(_, _, _)
SumRange(row, lo, hi) ==
    IF lo > hi THEN 0
    ELSE IF lo = hi THEN row[lo]
    ELSE LET mid == (lo + hi) \div 2
         IN  SumRange(row, lo, mid) + SumRange(row, mid + 1, hi)

aggregate_repr(state, start, end, aggregation) ==
    LET n == SeqLenOf(state)
    IN  CASE aggregation = "first" ->
               IF start >= n THEN [error |-> "IndexError"]
               ELSE [error |-> "none",
                     vector |-> [r \in 1..Len(state) |-> <<state[r][start], 1>>]]
          [] aggregation = "last" ->
               IF end >= n THEN [error |-> "IndexError"]
               ELSE [error |-> "none",
                     vector |-> [r \in 1..Len(state) |-> <<state[r][end], 1>>]]
          [] aggregation = "average" ->
               LET hi == Min(end + 1, n) - 1
               IN  [error |-> "none",
                    vector |-> [r \in 1..Len(state) |->
                                   IF start > hi THEN NaN
                                   ELSE <<SumRange(state[r], start, hi),
                                          hi - start + 1>>]]

(***************************************************************************)
(* get_sentence_repr (lines 147-233)                                       *)
(***************************************************************************)
\* sentence.split(' ') (line 166): the fields between single spaces, empty ones
\* included; the empty sentence has one empty field.
SplitOn(s, d) ==
    LET at == SelectSeq([i \in 1..Len(s) |-> i], LAMBDA i : s[i] = d)
        nf == Len(at) + 1
    IN  [k \in 1..nf |->
            SubSeq(s, IF k = 1 THEN 1 ELSE at[k - 1] + 1,
                      IF k = nf THEN Len(s) ELSE at[k] - 1)]

\* Line 168: every word but the first is primed with "a ".
OriginalTokens(sentence) ==
    LET words == SplitOn(sentence, " ")
    IN  [k \in 1..Len(words) |->
            IF k # 1 THEN <<"a", " ">> \o words[k] ELSE words[k]]

\* Lines 173-176: the number of sub-word tokens of one primed word.
CountSubwords(cls, token_idx, token) ==
    LET enc == Encode(cls, token, FALSE, 0)
        tok_ids == SelectSeq(enc, LAMBDA x : x \notin special_tokens(cls))
    IN  IF token_idx # 0 THEN Len(SubSeq(tok_ids, 2, Len(tok_ids)))
        ELSE Len(tok_ids)

\* A cache whose entry is written again, one higher, when the word is met again.
RecordCountAgain(counts, token, n) ==
    IF token \in DOMAIN counts
      THEN [ok |-> TRUE, counts |-> [counts EXCEPT ![token] = @ + 1]]
      ELSE [ok |-> TRUE, counts |-> counts @@ (token :> n)]

\* Lines 179-182: the entry of the cache is checked when there is one, and
\* created otherwise.
RecordCount(counts, token, n) ==
    IF token \in DOMAIN counts
      THEN [ok |-> counts[token] = n, counts |-> counts]
      ELSE [ok |-> TRUE, counts |-> counts @@ (token :> n)]

RECURSIVE CountLoop(_, _, _, _, _)
\* The loop of lines 172-182 over tokens[lo..hi], left to right; it stops at the
\* first failed assertion.
CountLoop(cls, tokens, lo, hi, counts) ==
    IF lo > hi THEN [ok |-> TRUE, counts |-> counts]
    ELSE IF lo = hi
      THEN RecordCount(counts, tokens[lo], CountSubwords(cls, lo - 1, tokens[lo]))
    ELSE LET mid == (lo + hi) \div 2
             left == CountLoop(cls, tokens, lo, mid, counts)
         IN  IF left.ok THEN CountLoop(cls, tokens, mid + 1, hi, left.counts)
             ELSE left

RECURSIVE WordSpans(_, _, _, _, _)
\* Lines 206-221: counter runs over the words left to right; word k gets
\* current_word_start_idx = counter and current_word_end_idx = counter + count.
WordSpans(tokens, counts, lo, hi, counter) ==
    IF lo > hi THEN [spans |-> <<>>, counter |-> counter]
    ELSE IF lo = hi
      THEN [spans |-> << <<counter, counter + counts[tokens[lo]]>> >>,
            counter |-> counter + counts[tokens[lo]]]
    ELSE LET mid == (lo + hi) \div 2
             left == WordSpans(tokens, counts, lo, mid, counter)
             right == WordSpans(tokens, counts, mid + 1, hi, left.counter)
         IN  [spans |-> left.spans \o right.spans, counter |-> right.counter]

Failed(err, counts) ==
    [error |-> err, counts |-> counts, hidden_states |-> <<>>,
     detokenized |-> <<>>, warned |-> FALSE]

\* Lines 208-219: the vector and the joined sub-word tokens of every word, or
\* the IndexError of the first position read outside the tensor.
AlignWords(original_tokens, spans, all_hidden_states, segmented_tokens, aggregation) ==
    LET words == [k \in 1..Len(original_tokens) |->
                    aggregate_repr(all_hidden_states, spans[k][1], spans[k][2],
                                   aggregation)]
    IN  IF \E k \in 1..Len(original_tokens) : words[k].error # "none"
          THEN [error |-> "IndexError at line 213"]
          ELSE [error |-> "none",
                final_hidden_states |->
                    [r \in 1..Len(all_hidden_states) |->
                        [k \in 1..Len(original_tokens) |-> words[k].vector[r]]],
                detokenized |->
                    [k \in 1..Len(original_tokens) |->
                        Flatten(segmented_tokens, spans[k][1] + 1,
                                Min(spans[k][2], Len(segmented_tokens)))]]

\* The way out of get_sentence_repr: the exception raised first, or the checks
\* of lines 226-230 and the result (line 233).
SentenceRepr(counted, ids, ids_without_special_tokens, walk, aligned, empty_input_ok) ==
    IF ~counted.ok THEN Failed("AssertionError at line 180", counted.counts)
    ELSE IF Len(ids) = 0 /\ ~empty_input_ok
      THEN Failed("RuntimeError at line 186", counted.counts)
    ELSE IF aligned.error # "none" THEN Failed(aligned.error, counted.counts)
    ELSE IF Len(ids) < 512 /\ walk.counter # Len(ids_without_special_tokens)
      THEN Failed("AssertionError at line 229", counted.counts)
    ELSE [error |-> "none", counts |-> counted.counts,
          hidden_states |-> aligned.final_hidden_states,
          detokenized |-> aligned.detokenized,
          warned |-> Len(ids) >= 512]

\* Lines 183-221, once the words are counted.
EncodeAndAlign(cls, original_tokens, counted, ids, include_embeddings, aggregation, empty_input_ok) ==
    SentenceRepr(counted, ids,
                 SelectSeq(ids, LAMBDA x : x \notin special_tokens(cls)),
                 WordSpans(original_tokens, counted.counts, 1,
                           Len(original_tokens), 0),
                 AlignWords(original_tokens,
                            WordSpans(original_tokens, counted.counts, 1,
                                      Len(original_tokens), 0).spans,
                            SelectHiddenStates(ModelHiddenStates(ids),
                                               include_embeddings),
                            SelectSeq(ids, LAMBDA x : x \notin special_tokens(cls)),
                            aggregation),
                 empty_input_ok)

\* empty_input_ok: whether the model accepts an input without any id (only a
\* tokenizer without special tokens produces one, from an empty line).
get_sentence_repr(sentence, tokenizer, counts, include_embeddings, aggregation, empty_input_ok) ==
    EncodeAndAlign(tokenizer.cls, OriginalTokens(sentence),
                   CountLoop(tokenizer.cls, OriginalTokens(sentence), 1,
                             Len(OriginalTokens(sentence)), counts),
                   Encode(tokenizer.cls, sentence, TRUE, MAX_SEQ_LEN),
                   include_embeddings, aggregation, empty_input_ok)

(***************************************************************************)
(* The output files                                                        *)
(***************************************************************************)
RECURSIVE FractionDigits(_, _, _)
\* The first k decimals of r / den (r < den), as a number, and what is left.
FractionDigits(r, den, k) ==
    IF k = 0 THEN [digits |-> 0, rest |-> r]
    ELSE LET before == FractionDigits(r, den, k - 1)
         IN  [digits |-> 10 * before.digits + (10 * before.rest) \div den,
              rest |-> (10 * before.rest) % den]

\* round(x, 8) (line 346) of the fraction v: <<whole part, the eight decimals>>,
\* rounded to the nearest; NaN stays NaN.
Round8(v) ==
    IF v[2] = 0 THEN NaN
    ELSE LET whole == v[1] \div v[2]
             f == FractionDigits(v[1] % v[2], v[2], 8)
             up == IF 2 * f.rest >= v[2] THEN 1 ELSE 0
         IN  IF f.digits + up = 100000000 THEN <<whole + 1, 0>>
             ELSE <<whole, f.digits + up>>

\* Lines 336-355: the object written as one line of the json file.
JsonLine(sentence_idx, hidden_states, extracted_words) ==
    [linex_index |-> sentence_idx,
     features |->
        [word_idx \in 1..Len(extracted_words) |->
            [token |-> extracted_words[word_idx],
             layers |->
                [layer_idx \in 1..Len(hidden_states) |->
                    [index |-> layer_idx - 1,
                     values |-> <<Round8(hidden_states[layer_idx][word_idx])>>]]]]]

HDF5_SPECIAL_TOKENS == (<<".">> :> <<"__DOT__">>) @@ (<<"/">> :> <<"__SLASH__">>)

\* The names bound at module level, and those bound in extract_representations
\* (its parameters and the variables it assigns).
ModuleNames ==
    {"argparse", "collections", "json", "sys", "np", "torch", "h5py", "tqdm",
     "XLNetTokenizer", "XLNetModel", "GPT2Tokenizer", "GPT2Model", "XLMTokenizer",
     "XLMModel", "BertTokenizer", "BertModel", "RobertaTokenizer", "RobertaModel",
     "DistilBertTokenizer", "DistilBertModel", "tokenization_counts",
     "MAX_SEQ_LEN", "get_model_and_tokenizer", "aggregate_repr",
     "get_sentence_repr", "make_hdf5_file", "extract_representations",
     "HDF5_SPECIAL_TOKENS", "main"}

ExtractLocalNames ==
    {"model_name", "input_corpus", "output_file", "device", "aggregation",
     "output_type", "filter_vocab", "model_path", "limit_max_occurrences",
     "random_weights", "ignore_embeddings", "model", "tokenizer", "sep",
     "corpus_generator", "sentence_idx", "sentence", "hidden_states",
     "extracted_words", "idx", "extracted_word", "hdf5_path", "word_idx",
     "layer_idx", "dset", "output_json", "all_out_features", "all_layers",
     "layers", "out_features"}

\* An hdf5 file is a function from the paths of its objects (a path is the
\* sequence of its components) to the objects.
H5Components(text) == SelectSeq(SplitOn(text, "/"), LAMBDA c : c # <<>>)

H5Children(objects, path) ==
    {q \in DOMAIN objects : Len(q) = Len(path) + 1 /\ SubSeq(q, 1, Len(path)) = path}

\* create_dataset(path) with its value and the "context" attribute (lines
\* 332-334); the groups on the way are created.
H5Store(objects, path, value, context) ==
    LET groups == {SubSeq(path, 1, n) : n \in 1..(Len(path) - 1)} \ DOMAIN objects
    IN  (path :> [kind |-> "dataset", value |-> value, context |-> context])
          @@ [g \in groups |-> [kind |-> "group"]] @@ objects

\* The test of line 319 without its first half.
LimitReachedUnsigned(limit_max_occurrences, word_idx) ==
    word_idx >= limit_max_occurrences

\* Line 319.
OccurrenceLimitReached(limit_max_occurrences, word_idx) ==
    limit_max_occurrences >= 0 /\ word_idx >= limit_max_occurrences

RECURSIVE Hdf5Loop(_, _, _, _, _, _, _)
\* Lines 308-334 from the word at idx on: the file and the messages printed
\* after the loop, or the exception that ends it.
Hdf5Loop(objects, printed, idx, extracted_words, hidden_states, sentence, limit) ==
    IF idx > Len(extracted_words)
      THEN [error |-> "none", objects |-> objects, printed |-> printed]
    ELSE
      LET extracted_word ==
              IF extracted_words[idx] \in DOMAIN HDF5_SPECIAL_TOKENS
                THEN HDF5_SPECIAL_TOKENS[extracted_words[idx]]
                ELSE extracted_words[idx]
          word_path == H5Components(<<"tokens", "/">> \o extracted_word)
          is_dataset == word_path \in DOMAIN objects
                          /\ objects[word_path].kind = "dataset"
          word_idx == IF word_path \notin DOMAIN objects THEN 0
                      ELSE Cardinality(H5Children(objects, word_path))
          hdf5_path == H5Components(<<"tokens", "/">> \o extracted_word
                                      \o <<"/", ToString(word_idx)>>)
      IN  IF is_dataset
            THEN [error |-> "AttributeError at line 315", objects |-> objects,
                  printed |-> printed]
          ELSE IF OccurrenceLimitReached(limit, word_idx)
            THEN Hdf5Loop(objects, printed \cup {"occurrence limit"}, idx + 1,
                          extracted_words, hidden_states, sentence, limit)
          ELSE IF hdf5_path \in DOMAIN objects
            THEN [error |-> "AssertionError at line 323", objects |-> objects,
                  printed |-> printed]
          ELSE IF "decompose_layers" \notin ExtractLocalNames \cup ModuleNames
            THEN [error |-> "NameError at line 324", objects |-> objects, printed |-> printed]
          ELSE Hdf5Loop(H5Store(objects, hdf5_path,
                                [r \in 1..Len(hidden_states) |->
                                    hidden_states[r][idx]],
                                sentence),
                        printed, idx + 1, extracted_words, hidden_states,
                        sentence, limit)

(***************************************************************************)
(* main and extract_representations (lines 247-357, 365-429)               *)
(***************************************************************************)
VARIABLES
    pc,                   \* "main", "extracting", "closed", "exited", "raised"
    args,                 \* the parsed command line
    model, tokenizer, sep,
    filter_vocab,         \* the local variable of extract_representations
    output_file,
    sentence_idx,         \* index of the line last read, -1 before the first
    sentence,
    hidden_states, extracted_words,
    tokenization_counts,  \* the module's cache (line 53)
    printed,              \* the warnings printed so far
    error                 \* the exception that ended the run and the line that
                          \* raised it, or "none"

vars == <<pc, args, model, tokenizer, sep, filter_vocab, output_file,
          sentence_idx, sentence, hidden_states, extracted_words,
          tokenization_counts, printed, error>>

NotLoaded == [cls |-> "none"]

Init ==
    /\ pc = "main"
    /\ args = [model_name |-> <<>>]
    /\ model = NotLoaded
    /\ tokenizer = NotLoaded
    /\ sep = <<>>
    /\ filter_vocab = [loaded |-> FALSE]
    /\ output_file = [type |-> "none"]
    /\ sentence_idx = -1
    /\ sentence = <<>>
    /\ hidden_states = <<>>
    /\ extracted_words = <<>>
    /\ tokenization_counts = <<>>
    /\ printed = {}
    /\ error = "none"

\* The words of the vocabulary file: the first column of its lines, lowercased.
VocabFileWords == { <<"a">> }

\* Lines 265-271: the parameter is replaced by None before it is tested.
ReadFilterVocab(filter_vocab_arg) ==
    LET replaced == <<>>
    IN  IF replaced # <<>>
          THEN [loaded |-> TRUE, words |-> VocabFileWords]
          ELSE [loaded |-> FALSE]

\* Lines 274-288: the file is opened for writing, so it starts without any
\* object or line.
OpenOutput(output_type, name) ==
    IF output_type = "hdf5"
      THEN [type |-> "hdf5", name |-> name, objects |-> <<>>]
      ELSE [type |-> "json", name |-> name, lines |-> <<>>]

ExtensionWarning(output_type, name) ==
    IF \/ (output_type = "hdf5" /\ ~EndsWith(name, <<".", "h", "d", "f", "5">>))
       \/ (output_type = "json" /\ ~EndsWith(name, <<".", "j", "s", "o", "n">>))
      THEN {"extension"} ELSE {}

\* main parses the command line a and calls extract_representations, which
\* loads the model and opens the output file (lines 248-289).
Start(a) ==
    /\ pc = "main"
    /\ LET got == get_model_and_tokenizer(a.model_name, a.device,
                                          a.random_weights, a.model_path)
       IN  /\ args' = a
           /\ IF got.exited
                THEN /\ pc' = "exited"
                     /\ UNCHANGED <<model, tokenizer, sep, filter_vocab,
                                    output_file, printed>>
                ELSE /\ pc' = "extracting"
                     /\ model' = got.model
                     /\ tokenizer' = got.tokenizer
                     /\ sep' = got.sep
                     /\ filter_vocab' = ReadFilterVocab(a.filter_vocab)
                     /\ output_file' = OpenOutput(a.output_type, a.output_file)
                     /\ printed' = printed
                                     \cup ExtensionWarning(a.output_type, a.output_file)
    /\ UNCHANGED <<sentence_idx, sentence, hidden_states, extracted_words,
                   tokenization_counts, error>>

RECURSIVE Strip(_)
\* line.strip() (line 261).
Strip(line) ==
    IF line # <<>> /\ line[1] = " " THEN Strip(SubSeq(line, 2, Len(line)))
    ELSE IF line # <<>> /\ line[Len(line)] = " "
      THEN Strip(SubSeq(line, 1, Len(line) - 1))
    ELSE line

\* Lines 304-355: what the loop does with the result of get_sentence_repr;
\* stored is the outcome of the hdf5 loop over its words.
WriteOutput(got, stored) ==
    IF got.error # "none"
      THEN /\ pc' = "raised"
           /\ error' = got.error
           /\ UNCHANGED <<hidden_states, extracted_words, output_file, printed>>
    ELSE IF output_file.type = "hdf5"
      THEN /\ hidden_states' = got.hidden_states
           /\ extracted_words' = got.detokenized
           /\ output_file' = [output_file EXCEPT !.objects = stored.objects]
           /\ printed' = stored.printed
           /\ error' = stored.error
           /\ pc' = IF stored.error # "none" THEN "raised" ELSE pc
    ELSE /\ hidden_states' = got.hidden_states
         /\ extracted_words' = got.detokenized
         /\ output_file' =
              [output_file EXCEPT !.lines =
                  Append(@, JsonLine(sentence_idx + 1, got.hidden_states,
                                     got.detokenized))]
         /\ printed' = printed \cup (IF got.warned THEN {"truncated"} ELSE {})
         /\ UNCHANGED <<pc, error>>

\* Lines 292-302 and 304-355 for the sentence s.
Extract(s, got) ==
    /\ sentence_idx' = sentence_idx + 1
    /\ sentence' = s
    /\ tokenization_counts' = got.counts
    /\ WriteOutput(got,
                   Hdf5Loop(output_file.objects,
                            printed \cup (IF got.warned THEN {"truncated"} ELSE {}),
                            1, got.detokenized, got.hidden_states, s,
                            args.limit_max_occurrences))

\* One turn of the loop of lines 291-355 on the next line of the corpus.
ProcessSentence(line, empty_input_ok) ==
    /\ pc = "extracting"
    /\ sentence_idx + 1 < MaxSentences
    /\ Extract(Strip(line),
               get_sentence_repr(Strip(line), tokenizer, tokenization_counts,
                                 ~args.ignore_embeddings, args.aggregation,
                                 empty_input_ok))
    /\ UNCHANGED <<args, model, tokenizer, sep, filter_vocab>>

\* The corpus has no more lines: output_file.close() (line 357).
Finish ==
    /\ pc = "extracting"
    /\ pc' = "closed"
    /\ UNCHANGED <<args, model, tokenizer, sep, filter_vocab, output_file,
                   sentence_idx, sentence, hidden_states, extracted_words,
                   tokenization_counts, printed, error>>

(***************************************************************************)
(* Command lines and corpora                                               *)
(***************************************************************************)
BertBaseUncased == bert \o <<"-", "b", "a", "s", "e">>
Gpt2Medium == gpt2 \o <<"-", "m", "e", "d", "i", "u", "m">>
XlnetBaseCased == xlnet \o <<"-", "b", "a", "s", "e">>
XlmMlmEn == xlm \o <<"-", "m", "l", "m">>
XlmRobertaBase == xlm \o <<"-">> \o roberta
DistilbertBase == distilbert \o <<"-", "b", "a", "s", "e">>
RobertaBase == roberta \o <<"-", "b", "a", "s", "e">>
AlbertBase == <<"a", "l">> \o bert \o <<"-", "b", "a", "s", "e">>

LocalPath == <<"/", "c", "k", "p", "t">>
VocabPath == <<"v", "o", "c", "a", "b">>
JsonName == <<"o", ".", "j", "s", "o", "n">>
Hdf5Name == <<"o", ".", "h", "d", "f", "5">>

\* The default of --limit-max-occurrences (line 391).
Unlimited == -1

Aggregations == {"first", "last", "average"}

\* The lines of at most MaxSentLen characters over chars, and some more.
Lines(chars, more) == UNION {[1..n -> chars] : n \in 0..MaxSentLen} \cup more

DoubleSpace == <<"a", " ", " ", "a">>
ThreeWords == <<"a", " ", "a", " ", "a">>

\* Whether the model accepts an input without ids is asked only when the line
\* gives one.
EmptyInputChoices(line) ==
    IF pc = "extracting"
         /\ Encode(tokenizer.cls, Strip(line), TRUE, MAX_SEQ_LEN) = <<>>
      THEN BOOLEAN ELSE {TRUE}

\* json output, every aggregation and tokenizer layout.
ArgsJson ==
    [model_name : {BertBaseUncased, Gpt2Medium, XlnetBaseCased, AlbertBase},
     model_path : {<<>>}, aggregation : Aggregations, output_type : {"json"},
     output_file : {JsonName}, limit_max_occurrences : {Unlimited},
     ignore_embeddings : BOOLEAN, decompose_layers : {FALSE},
     filter_vocab : {<<>>, VocabPath}, random_weights : {FALSE},
     device : {"cpu"}]

LinesJson == Lines({"a", ".", " "}, {DoubleSpace, ThreeWords})

Next ==
    \/ \E a \in ArgsJson : Start(a)
    \/ \E line \in LinesJson :
         \E ok \in EmptyInputChoices(line) : ProcessSentence(line, ok)
    \/ Finish

Spec == Init /\ [][Next]_vars

\* hdf5 output with and without a limit on the occurrences.
ArgsHdf5 ==
    [model_name : {BertBaseUncased, Gpt2Medium},
     model_path : {<<>>}, aggregation : {"last", "average"},
     output_type : {"hdf5"}, output_file : {Hdf5Name, JsonName},
     limit_max_occurrences : {Unlimited, 0, 1, 2},
     ignore_embeddings : {FALSE}, decompose_layers : BOOLEAN,
     filter_vocab : {<<>>}, random_weights : {FALSE}, device : {"cpu"}]

LinesHdf5 == Lines({"a", " "}, {<<".">>, <<"/">>, <<"a", "/", "a">>, ThreeWords})

NextHdf5 ==
    \/ \E a \in ArgsHdf5 : Start(a)
    \/ \E line \in LinesHdf5 :
         \E ok \in EmptyInputChoices(line) : ProcessSentence(line, ok)
    \/ Finish

SpecHdf5 == Init /\ [][NextHdf5]_vars

\* The cache over the sentences of one run.
ArgsCache ==
    [model_name : {BertBaseUncased, Gpt2Medium, XlnetBaseCased},
     model_path : {<<>>}, aggregation : {"first", "average"},
     output_type : {"json"}, output_file : {JsonName},
     limit_max_occurrences : {Unlimited},
     ignore_embeddings : {FALSE}, decompose_layers : {FALSE},
     filter_vocab : {<<>>}, random_weights : {FALSE}, device : {"cpu"}]

LinesCache == Lines({"a", " "}, {DoubleSpace, ThreeWords})

NextCache ==
    \/ \E a \in ArgsCache : Start(a)
    \/ \E line \in LinesCache :
         \E ok \in EmptyInputChoices(line) : ProcessSentence(line, ok)
    \/ Finish

SpecCache == Init /\ [][NextCache]_vars

\* Sentences around the maximum sequence length: n one-letter words.
WordsOfA(n) == [i \in 1..(2 * n - 1) |-> IF i % 2 = 1 THEN "a" ELSE " "]

ArgsTrunc ==
    [model_name : {BertBaseUncased, XlnetBaseCased},
     model_path : {<<>>}, aggregation : Aggregations,
     output_type : {"json"}, output_file : {JsonName},
     limit_max_occurrences : {Unlimited},
     ignore_embeddings : BOOLEAN, decompose_layers : {FALSE},
     filter_vocab : {<<>>}, random_weights : {FALSE}, device : {"cpu"}]

LinesTrunc ==
    {WordsOfA(MAX_SEQ_LEN - 2), WordsOfA(MAX_SEQ_LEN), WordsOfA(MAX_SEQ_LEN + 1),
     <<"a">>}

NextTrunc ==
    \/ \E a \in ArgsTrunc : Start(a)
    \/ \E line \in LinesTrunc :
         \E ok \in EmptyInputChoices(line) : ProcessSentence(line, ok)
    \/ Finish

SpecTrunc == Init /\ [][NextTrunc]_vars

\* Loading, for every family of models, with and without a local path.
ArgsLoad ==
    [model_name : {BertBaseUncased, Gpt2Medium, XlnetBaseCased, XlmMlmEn,
                   XlmRobertaBase, DistilbertBase, RobertaBase, AlbertBase},
     model_path : {<<>>, LocalPath}, aggregation : {"last"},
     output_type : {"json", "hdf5"}, output_file : {JsonName},
     limit_max_occurrences : {Unlimited},
     ignore_embeddings : {FALSE}, decompose_layers : {FALSE},
     filter_vocab : {<<>>}, random_weights : BOOLEAN, device : {"cpu", "cuda"}]

NextLoad ==
    \/ \E a \in ArgsLoad : Start(a)
    \/ Finish

SpecLoad == Init /\ [][NextLoad]_vars

(***************************************************************************)
(* What the properties speak of                                            *)
(***************************************************************************)
\* get_sentence_repr has returned for the sentence in hand.
Returned == pc \in {"extracting", "closed"} /\ sentence_idx >= 0 /\ error = "none"

\* The sentence has more sub-word tokens than encode() keeps.
Truncated(cls, s) ==
    Len(Tokenize(cls, s)) + Len(PrefixSpecial(cls)) + Len(SuffixSpecial(cls))
      > MAX_SEQ_LEN

\* The positions in the activation tensor of the sub-word tokens of the k-th
\* word of s (the k-th field between single spaces): the special tokens put in
\* front come first, then one token for every character that is not a space.
OwnPositions(cls, s, k) ==
    {Len(PrefixSpecial(cls)) + Cardinality({j \in 1..(i - 1) : s[j] # " "}) :
        i \in {i \in 1..Len(s) :
                 s[i] # " " /\ Cardinality({j \in 1..(i - 1) : s[j] = " "}) = k - 1}}

NumFields(s) == 1 + Cardinality({i \in 1..Len(s) : s[i] = " "})

\* The words of s in the usual sense: the maximal runs of characters that are
\* not spaces.
NumWhitespaceWords(s) ==
    Cardinality({i \in 1..Len(s) : s[i] # " " /\ (i = 1 \/ s[i - 1] = " ")})

SetMin(S) == CHOOSE x \in S : \A y \in S : x <= y
SetMax(S) == CHOOSE x \in S : \A y \in S : x >= y

RECURSIVE SumOver(_, _)
SumOver(row, S) ==
    IF S = {} THEN 0
    ELSE LET p == SetMin(S) IN row[p] + SumOver(row, S \ {p})

\* Equality of two fractions; NaN equals nothing.
VecEq(u, v) == u[2] # 0 /\ v[2] # 0 /\ u[1] * v[2] = v[1] * u[2]

\* The activation tensor of the sentence in hand.
TensorOf(s) ==
    SelectHiddenStates(
        ModelHiddenStates(Encode(tokenizer.cls, s, TRUE, MAX_SEQ_LEN)),
        ~args.ignore_embeddings)

\* What the aggregation over exactly the positions P gives in row r.
Aggregated(tensor, r, P, aggregation) ==
    CASE aggregation = "first" -> <<tensor[r][SetMin(P)], 1>>
      [] aggregation = "last" -> <<tensor[r][SetMax(P)], 1>>
      [] aggregation = "average" -> <<SumOver(tensor[r], P), Cardinality(P)>>

\* The layer an entry of a word vector was read from.
LayerOf(v) == (v[1] \div v[2]) \div 1000

(***************************************************************************)
(* Properties                                                              *)
(***************************************************************************)
\* C1: for a sentence that is not truncated, the vector of every word is
\* aggregated over exactly the positions of the word's own sub-word tokens:
\* the first of them for "first", the last for "last", their mean for "average".
C1_OwnSpanAggregated ==
    (Returned /\ ~Truncated(tokenizer.cls, sentence)) =>
        \A k \in 1..NumFields(sentence) :
            LET P == OwnPositions(tokenizer.cls, sentence, k)
            IN  P # {} =>
                  /\ tokenization_counts[OriginalTokens(sentence)[k]] = Cardinality(P)
                  /\ \A r \in 1..Len(hidden_states) :
                        VecEq(hidden_states[r][k],
                              Aggregated(TensorOf(sentence), r, P, args.aggregation))

\* C2: the vector of a word that is exactly one sub-word token is that token's
\* vector under each of the three aggregation methods.
C2_SingleTokenWord ==
    Returned =>
        \A k \in 1..NumFields(sentence) :
            LET P == OwnPositions(tokenizer.cls, sentence, k)
            IN  Cardinality(P) = 1 =>
                  \A aggregation \in Aggregations :
                     LET got == get_sentence_repr(sentence, tokenizer,
                                    tokenization_counts, ~args.ignore_embeddings,
                                    aggregation, TRUE)
                     IN  /\ got.error = "none"
                         /\ \A r \in 1..Len(got.hidden_states) :
                               VecEq(got.hidden_states[r][k],
                                     <<TensorOf(sentence)[r][SetMin(P)], 1>>)

\* C4: without truncation, the line written for a sentence holds the
\* sentence's index and one feature per whitespace-delimited word of the
\* sentence, each feature with the word's list of layers.
C4_RecordsPerSentence ==
    (Returned /\ output_file.type = "json"
       /\ ~Truncated(tokenizer.cls, sentence)) =>
        LET written == output_file.lines[Len(output_file.lines)]
        IN  /\ written.linex_index = sentence_idx
            /\ Len(written.features) = NumWhitespaceWords(sentence)
            /\ Len(written.features) = Len(extracted_words)
            /\ \A w \in 1..Len(written.features) :
                  Len(written.features[w].layers) = Len(hidden_states)

\* C8: with ignore_embeddings the rows of the tensor are the outputs of the
\* transformer layers 1..NumLayers in order, without the embedding output
\* (layer 0); without it they are the layers 0..NumLayers in order.
C8_EmbeddingLayerDropped ==
    Returned =>
        /\ Len(hidden_states)
             = (IF args.ignore_embeddings THEN NumLayers ELSE NumLayers + 1)
        /\ \A r \in 1..Len(hidden_states) :
              \A k \in 1..Len(hidden_states[r]) :
                 hidden_states[r][k] # NaN =>
                    LayerOf(hidden_states[r][k])
                      = (IF args.ignore_embeddings THEN r ELSE r - 1)

\* C9: with a vocabulary filter, a record is produced only for words of the
\* vocabulary; without one, for every word.
C9_OnlyFilterWords ==
    Returned =>
        LET words == SplitOn(sentence, " ")
        IN  IF args.filter_vocab # <<>>
              THEN \A k \in 1..Len(extracted_words) :
                      words[k] # <<>> => words[k] \in VocabFileWords
              ELSE Len(extracted_words) = Len(words)

\* C3: a sentence that is truncated does not end the run, whatever the
\* aggregation: the warning is printed and one vector per word is returned.
C3_TruncationTolerated ==
    (pc # "main" /\ sentence_idx >= 0 /\ Truncated(tokenizer.cls, sentence)) =>
        /\ error = "none"
        /\ pc \in {"extracting", "closed"}
        /\ "truncated" \in printed
        /\ Len(extracted_words) = NumFields(sentence)
        /\ \A r \in 1..Len(hidden_states) :
              Len(hidden_states[r]) = NumFields(sentence)

\* The occurrences stored for the word of key: the objects right under
\* tokens/<key>.
StoredUnder(key) == H5Children(output_file.objects, << <<"tokens">>, key >>)

\* C5: with a limit N >= 0 no word has more than N occurrences stored (none
\* at all for N = 0), and without a limit (-1) no occurrence is skipped.
C5_OccurrenceLimit ==
    output_file.type = "hdf5" =>
        LET N == args.limit_max_occurrences
        IN  /\ N >= 0 =>
                 \A path \in DOMAIN output_file.objects :
                    Len(path) = 2 => Cardinality(StoredUnder(path[2])) <= N
            /\ N = 0 => DOMAIN output_file.objects = {}
            /\ N = Unlimited => "occurrence limit" \notin printed

\* An occurrence was skipped because of the limit, and the run goes on.
C5_Witness ==
    /\ output_file.type = "hdf5"
    /\ args.limit_max_occurrences = 0
    /\ Returned
    /\ sentence_idx >= 1
    /\ "occurrence limit" \in printed

\* C6: an entry of tokenization_counts, once made, is never changed or
\* removed, by any step of the run.
C6_CacheWriteOnce ==
    [][\A token \in DOMAIN tokenization_counts :
          /\ token \in DOMAIN tokenization_counts'
          /\ tokenization_counts'[token] = tokenization_counts[token]]_vars

\* A primed word met again: twice in the sentence in hand, after an earlier
\* sentence had put it in the cache.
C6_Witness ==
    /\ Returned
    /\ sentence_idx >= 1
    /\ \E i, j \in 1..NumFields(sentence) :
          /\ i < j
          /\ OriginalTokens(sentence)[i] = OriginalTokens(sentence)[j]
          /\ OriginalTokens(sentence)[i] \in DOMAIN tokenization_counts
    /\ Cardinality(DOMAIN tokenization_counts) >= 3

\* The key of a word in the hdf5 file.
KeyOf(word) ==
    IF word \in DOMAIN HDF5_SPECIAL_TOKENS THEN HDF5_SPECIAL_TOKENS[word] ELSE word

\* C7: without a limit, storing never ends the run, and every occurrence of a
\* word is stored under tokens/<word> with the vectors of the occurrence and
\* its sentence, the occurrences of a word numbered from 0 without a gap.
C7_EveryOccurrenceStored ==
    (output_file.type = "hdf5" /\ args.limit_max_occurrences = Unlimited) =>
        /\ error \notin {"AttributeError at line 315", "AssertionError at line 323",
                         "NameError at line 324"}
        /\ Returned =>
             \A idx \in 1..Len(extracted_words) :
                LET stored == StoredUnder(KeyOf(extracted_words[idx]))
                IN  /\ \E path \in stored :
                          /\ output_file.objects[path].kind = "dataset"
                          /\ output_file.objects[path].context = sentence
                          /\ output_file.objects[path].value
                               = [r \in 1..Len(hidden_states) |-> hidden_states[r][idx]]
                    /\ \A n \in 0..(Cardinality(stored) - 1) :
                          << <<"tokens">>, KeyOf(extracted_words[idx]), <<ToString(n)>> >>
                             \in stored

Recognized(model_name) ==
    \E prefix \in {xlnet, gpt2, xlm, bert, distilbert, roberta} :
        StartsWith(model_name, prefix)

\* C10: for a recognized model name, the model and the tokenizer are both
\* initialized from the local path when one is given and from the model name
\* otherwise; an unrecognized name ends the process with nothing loaded.
C10_InitializedFromPath ==
    pc # "main" =>
        IF Recognized(args.model_name)
          THEN LET from == IF args.model_path # <<>> THEN args.model_path
                           ELSE args.model_name
               IN  pc # "exited" /\ model.src = from /\ tokenizer.src = from
          ELSE pc = "exited" /\ model = NotLoaded /\ tokenizer = NotLoaded

====
